---- MODULE Spec2Model ----
(***************************************************************************)
(* Model of stream/stream.py: the Stream class, a fluent wrapper around    *)
(* one Python iterable.  Chaining methods build a new Stream around a lazy *)
(* IteratorUtils generator (or, for sorted, around an eagerly built list); *)
(* terminal methods drive the wrapped iterable.                            *)
(*                                                                         *)
(* The heap is a sequence of iterables; Stream number i wraps heap[i].     *)
(* Elements are Python ints and None.  None is encoded as the integer -1,  *)
(* outside the range of every int the model produces; every arithmetic or  *)
(* ordering operation tests for it and raises TypeError as Python does.    *)
(***************************************************************************)
EXTENDS Integers, Sequences, FiniteSets

\* ------------------------------------------------------------------ bounds
MaxLen == 2      \* longest collection a Stream is constructed from
MaxVal == 1      \* largest int in a constructed collection / seed
MaxPull == 3     \* elements an unbounded source hands out before the model stops
MaxObjs == 2     \* iterables alive in one behaviour
MaxCalls == 2    \* terminal calls on reused pipelines
MaxCount == 1    \* largest count handed to limit / skip

\* ------------------------------------------------------------------ values
None == -1
Ints == 0..MaxVal
Values == Ints \cup {None}

RECURSIVE SeqsUpTo(_)
SeqsUpTo(k) ==
  IF k = 0 THEN {<<>>}
  ELSE LET shorter == SeqsUpTo(k - 1)
       IN shorter \cup {Append(s, v) : s \in {t \in shorter : Len(t) = k - 1},
                                       v \in Values}

Lists == SeqsUpTo(MaxLen)

\* Caller-supplied functions, by name.
Preds == {"isOne", "truthy"}
Mappers == {"inc"}
FlatMappers == {"twice", "none"}
Accs == {"add", "nil"}
Cmps == {"natural", "desc", "half"}

\* lambda x: x == 1   /   lambda x: bool(x)
ApplyPred(p, x) == IF p = "isOne" THEN x = 1 ELSE x # None /\ x # 0

\* lambda x: x + 1 raises TypeError on None
MapRaises(f, x) == x = None
ApplyMap(f, x) == x + 1

\* lambda x: [x, x]   /   lambda x: None (treated as an empty inner sequence)
ApplyFlat(f, x) == IF f = "twice" THEN <<x, x>> ELSE <<>>

\* lambda a, b: a + b raises TypeError on None   /   lambda a, b: None
AccRaises(a, x, y) == a = "add" /\ (x = None \/ y = None)
ApplyAcc(a, x, y) == IF a = "add" THEN x + y ELSE None

\* cmp(a, b) < 0 under: natural ordering (comparator is None),
\* lambda a, b: b - a, lambda a, b: a // 2 - b // 2.  Any comparison with
\* None raises TypeError.
CmpRaises(c, x, y) == x = None \/ y = None
Less(c, x, y) ==
  CASE c = "natural" -> x < y
    [] c = "desc" -> y < x
    [] OTHER -> (x \div 2) < (y \div 2)

\* ------------------------------------------------------------------ heap
Obj(kind, data, op, fn, n, up) ==
  [kind |-> kind, data |-> data, pos |-> 0, op |-> op, fn |-> fn, n |-> n,
   up |-> up, seen |-> {}, cnt |-> 0, flag |-> FALSE, inner |-> <<>>,
   done |-> FALSE, out |-> 0]

\* Stream(iterable): a collection, or a one-shot lazy sequence over finite data.
NewList(data) == Obj("list", data, "-", "-", 0, 0)
NewIterator(data) == Obj("iterator", data, "-", "-", 0, 0)
\* Stream.iterate(seed, lambda x: x + 1), Stream.generate(lambda: c)
NewIterate(seed) == Obj("iterate", <<seed>>, "-", "inc", 0, 0)
NewGenerate(c) == Obj("generate", <<c>>, "-", "-", 0, 0)
\* IteratorUtils.<op>(upstream, ...): an unstarted generator over heap[up]
NewGen(op, fn, n, up) == Obj("gen", <<>>, op, fn, n, up)

Sources ==
  {NewList(d) : d \in Lists} \cup {NewIterator(d) : d \in Lists}
    \cup {NewIterate(s) : s \in Ints} \cup {NewGenerate(c) : c \in {1}}

Step(st, h, v) == [st |-> st, h |-> h, v |-> v]

RECURSIVE Pull(_, _)

\* The iterable s has handed out one more element when the pull r succeeded.
Counted(r, s) ==
  IF r.st = "ok" THEN Step("ok", [r.h EXCEPT ![s].out = @ + 1], r.v) ELSE r

\* One step of "for elem in heap[s]" whose loop has already taken c elements:
\* a collection is walked by the loop's own cursor, a lazy sequence is pulled.
IterNext(h, s, c) ==
  Counted(IF h[s].kind = "list"
          THEN IF c < Len(h[s].data)
               THEN Step("ok", h, h[s].data[c + 1])
               ELSE Step("end", h, None)
          ELSE Pull(h, s), s)

\* The generator g moves its cursor when its pull r on the upstream succeeded.
Advanced(r, g) ==
  IF r.st = "ok" THEN Step("ok", [r.h EXCEPT ![g].pos = @ + 1], r.v) ELSE r

\* A generator's pull on its upstream; pos is its cursor when the upstream is
\* a collection.
UpPull(h, g) == Advanced(IterNext(h, h[g].up, h[g].pos), g)

\* A generator that returned or raised stays exhausted.
Finished(r, g) ==
  IF r.st \in {"end", "raise"}
  THEN Step(r.st, [r.h EXCEPT ![g].done = TRUE], r.v)
  ELSE r

\* One pull on the generator o = h[g]; u is its pull on the upstream, made
\* only where the stage asks for it.
GenStep(h, g, o, u) ==
  CASE o.op = "filter" ->
         IF u.st = "ok"
         THEN IF ApplyPred(o.fn, u.v) THEN u ELSE Pull(u.h, g)
         ELSE u
    [] o.op = "map" ->
         IF u.st = "ok"
         THEN IF MapRaises(o.fn, u.v) THEN Step("raise", u.h, None)
              ELSE Step("ok", u.h, ApplyMap(o.fn, u.v))
         ELSE u
    [] o.op = "flatMap" ->
         IF o.inner # <<>>
         THEN Step("ok", [h EXCEPT ![g].inner = Tail(@)], Head(o.inner))
         ELSE IF u.st = "ok"
              THEN Pull([u.h EXCEPT ![g].inner = ApplyFlat(o.fn, u.v)], g)
              ELSE u
    [] o.op = "distinct" ->
         IF u.st = "ok"
         THEN IF u.v \in o.seen THEN Pull(u.h, g)
              ELSE Step("ok", [u.h EXCEPT ![g].seen = @ \cup {u.v}], u.v)
         ELSE u
    [] o.op = "limit" ->
         IF o.cnt >= o.n THEN Step("end", h, None)
         ELSE IF u.st = "ok"
              THEN Step("ok", [u.h EXCEPT ![g].cnt = @ + 1], u.v)
              ELSE u
    [] o.op = "skip" ->
         IF u.st = "ok"
         THEN IF o.cnt < o.n THEN Pull([u.h EXCEPT ![g].cnt = @ + 1], g)
              ELSE u
         ELSE u
    [] o.op = "takeWhile" ->
         IF u.st = "ok"
         THEN IF ApplyPred(o.fn, u.v) THEN u ELSE Step("end", u.h, None)
         ELSE u
    [] o.op = "dropWhile" ->
         IF u.st = "ok"
         THEN IF ~o.flag /\ ApplyPred(o.fn, u.v) THEN Pull(u.h, g)
              ELSE Step("ok", [u.h EXCEPT ![g].flag = TRUE], u.v)
         ELSE u
    [] OTHER -> \* peek: the consumer runs once per forwarded element
         IF u.st = "ok"
         THEN Step("ok", [u.h EXCEPT ![g].cnt = @ + 1], u.v)
         ELSE u

GenPull(h, g) == GenStep(h, g, h[g], UpPull(h, g))

\* next() on the lazy sequence o = h[s]: "ok" with a value, "end"
\* (StopIteration), "raise" (a caller function raised), or "stuck": the
\* unbounded source has handed out MaxPull elements and the model follows it
\* no further.
PullObj(h, s, o) ==
  CASE o.kind = "iterator" ->
         IF o.pos < Len(o.data)
         THEN Step("ok", [h EXCEPT ![s].pos = @ + 1], o.data[o.pos + 1])
         ELSE Step("end", h, None)
    [] o.kind = "listiter" -> \* iter(a list): walks heap[o.up]
         IF o.pos < Len(h[o.up].data)
         THEN Step("ok", [h EXCEPT ![s].pos = @ + 1, ![o.up].out = @ + 1],
                   h[o.up].data[o.pos + 1])
         ELSE Step("end", h, None)
    [] o.kind = "iterate" ->
         IF o.pos < MaxPull
         THEN Step("ok", [h EXCEPT ![s].pos = @ + 1], o.data[1] + o.pos)
         ELSE Step("stuck", h, None)
    [] o.kind = "generate" ->
         IF o.pos < MaxPull
         THEN Step("ok", [h EXCEPT ![s].pos = @ + 1], o.data[1])
         ELSE Step("stuck", h, None)
    [] OTHER ->
         IF o.done THEN Step("end", h, None) ELSE Finished(GenPull(h, s), s)

Pull(h, s) == PullObj(h, s, h[s])

\* ------------------------------------------------------------------ results
\* What a call hands back: a tag, and the elements, set or number it carries.
Res(tag, seq, set, n) == [tag |-> tag, seq |-> seq, set |-> set, n |-> n]
RNone == Res("None", <<>>, {}, 0)
RBool(b) == Res(IF b THEN "True" ELSE "False", <<>>, {}, 0)
RList(seq) == Res("list", seq, {}, 0)
RSet(set) == Res("set", <<>>, set, 0)
RInt(n) == Res("int", <<>>, {}, n)
RErr(name) == Res(name, <<>>, {}, 0)
RIter(tag, seq, id) == Res(tag, seq, {}, id)

\* Optional.of(elem), Optional.ofNullable(elem)
OptionalOf(x) == Res("Optional", <<x>>, {}, 0)
OptionalEmpty == Res("Optional", <<>>, {}, 0)
OptionalOfNullable(x) == IF x = None THEN OptionalEmpty ELSE OptionalOf(x)

\* The outcome of a handler: st is "returned", "raised", or "running" (the
\* handler is still pulling from an unbounded source where the model stops);
\* buf holds the elements it pulled from self.__iterable, napp counts the
\* accumulator applications.
Out(st, h, res, buf, napp) ==
  [st |-> st, h |-> h, res |-> res, buf |-> buf, napp |-> napp]

\* list(heap[s]) / a for loop over heap[s] that runs to the end
RECURSIVE Drain(_, _, _)
DrainStep(r, s, acc) ==
  IF r.st = "ok" THEN Drain(r.h, s, Append(acc, r.v))
  ELSE [st |-> r.st, h |-> r.h, seq |-> acc]

Drain(h, s, acc) == DrainStep(IterNext(h, s, Len(acc)), s, acc)

\* How a handler that materializes first ends, given what it does with the list.
AfterDrain(d, res) ==
  CASE d.st = "end" -> Out("returned", d.h, res, d.seq, 0)
    [] d.st = "raise" -> Out("raised", d.h, RErr("TypeError"), d.seq, 0)
    [] OTHER -> Out("running", d.h, RNone, d.seq, 0)

\* ------------------------------------------------------------------ sorted()
\* Python's sorted is stable: an element goes before the first one it is
\* less than, hence after every element it compares equal to.
\* A sort that puts an element before the elements it compares equal to.
InsertSortedUnstable(x, t, c) ==
  LET after == {i \in 1..Len(t) : ~Less(c, t[i], x)}
      k == IF after = {} THEN Len(t) + 1
           ELSE CHOOSE i \in after : \A j \in after : i <= j
  IN SubSeq(t, 1, k - 1) \o <<x>> \o SubSeq(t, k, Len(t))

InsertSorted(x, t, c) ==
  LET after == {i \in 1..Len(t) : Less(c, x, t[i])}
      k == IF after = {} THEN Len(t) + 1
           ELSE CHOOSE i \in after : \A j \in after : i <= j
  IN SubSeq(t, 1, k - 1) \o <<x>> \o SubSeq(t, k, Len(t))

RECURSIVE PySorted(_, _)
PySorted(seq, c) ==
  IF seq = <<>> THEN <<>>
  ELSE InsertSorted(seq[Len(seq)], PySorted(SubSeq(seq, 1, Len(seq) - 1), c), c)

\* Sorting two or more elements compares each of them at least once.
SortRaises(seq) == Len(seq) >= 2 /\ \E i \in 1..Len(seq) : seq[i] = None

\* ------------------------------------------------------------------ chaining
\* Stream numbers: every heap slot but the list iterators __iter__ hands out
\* and the slots of chaining calls that returned no Stream.
Streams(h) == {i \in DOMAIN h : h[i].kind \notin {"listiter", "failed"}}

filter(s, p) == NewGen("filter", p, 0, s)
map(s, f) == NewGen("map", f, 0, s)
flatMap(s, f) == NewGen("flatMap", f, 0, s)
distinct(s) == NewGen("distinct", "-", 0, s)
limit(s, n) == NewGen("limit", "-", n, s)
skip(s, n) == NewGen("skip", "-", n, s)
takeWhile(s, p) == NewGen("takeWhile", p, 0, s)
dropWhile(s, p) == NewGen("dropWhile", p, 0, s)
peek(s, f) == NewGen("peek", f, 0, s)

\* Stream(sorted(self.__iterable, ...)): the builtin materializes the receiver
\* when sorted() is called and the new Stream wraps the sorted list.  The heap
\* after the call: when the builtin raises or never ends no Stream comes back
\* and the new slot only records the call.  The new list remembers the
\* comparator and the list it was sorted from.
sortedOf(d, s, c) ==
  IF d.st = "end" /\ ~SortRaises(d.seq)
  THEN Append(d.h, [NewList(PySorted(d.seq, c))
                      EXCEPT !.op = "sorted", !.fn = c, !.up = s,
                             !.inner = d.seq])
  ELSE Append(d.h, [Obj("failed", <<>>, "sorted", c, 0, s)
                      EXCEPT !.inner = d.seq])

sorted(h, s, c) == sortedOf(Drain(h, s, <<>>), s, c)

\* ------------------------------------------------------------------ terminals
forEach(h, s) == AfterDrain(Drain(h, s, <<>>), RNone)

\* any([predicate(elem) for elem in self.__iterable]): the list is built first
anyOf(d, p) ==
  AfterDrain(d, RBool(\E i \in 1..Len(d.seq) : ApplyPred(p, d.seq[i])))

anyMatch(h, s, p) == anyOf(Drain(h, s, <<>>), p)

allOf(d, p) ==
  AfterDrain(d, RBool(\A i \in 1..Len(d.seq) : ApplyPred(p, d.seq[i])))

allMatch(h, s, p) == allOf(Drain(h, s, <<>>), p)

\* not self.anyMatch(predicate)
NotAny(a) ==
  IF a.st = "returned"
  THEN Out("returned", a.h, RBool(a.res.tag = "False"), a.buf, 0)
  ELSE a

\* len(self.__iterable) == 0 or not self.anyMatch(predicate): only a
\* collection has a len
noneMatch(h, s, p) ==
  IF h[s].kind # "list" THEN Out("raised", h, RErr("TypeError"), <<>>, 0)
  ELSE IF Len(h[s].data) = 0 THEN Out("returned", h, RBool(TRUE), <<>>, 0)
  ELSE NotAny(anyMatch(h, s, p))

\* for elem in self.__iterable: return Optional.of(elem)
\* return Optional.ofNullable(None)
FirstOf(r) ==
  CASE r.st = "ok" -> Out("returned", r.h, OptionalOf(r.v), <<r.v>>, 0)
    [] r.st = "end" -> Out("returned", r.h, OptionalOfNullable(None), <<>>, 0)
    [] r.st = "raise" -> Out("raised", r.h, RErr("TypeError"), <<>>, 0)
    [] OTHER -> Out("running", r.h, RNone, <<>>, 0)

\* A loop that keeps the element instead of returning it: the last one wins.
LastOf(d) ==
  AfterDrain(d, IF d.seq = <<>> THEN OptionalOfNullable(None)
                ELSE OptionalOf(d.seq[Len(d.seq)]))

findFirstNoReturn(h, s) == LastOf(Drain(h, s, <<>>))

findFirst(h, s) == FirstOf(IterNext(h, s, 0))

findAny(h, s) == findFirst(h, s)

RECURSIVE ReduceLoop(_, _, _, _, _, _)
ReduceStep(r, s, a, result, buf, napp) ==
  CASE r.st = "ok" ->
         IF result = None
         THEN ReduceLoop(r.h, s, a, r.v, Append(buf, r.v), napp)
         ELSE IF AccRaises(a, result, r.v)
              THEN Out("raised", r.h, RErr("TypeError"), Append(buf, r.v),
                       napp + 1)
              ELSE ReduceLoop(r.h, s, a, ApplyAcc(a, result, r.v),
                              Append(buf, r.v), napp + 1)
    [] r.st = "end" ->
         Out("returned", r.h, OptionalOfNullable(result), buf, napp)
    [] r.st = "raise" -> Out("raised", r.h, RErr("TypeError"), buf, napp)
    [] OTHER -> Out("running", r.h, RNone, buf, napp)

ReduceLoop(h, s, a, result, buf, napp) ==
  ReduceStep(IterNext(h, s, Len(buf)), s, a, result, buf, napp)

\* identity is None when the caller gave none
reduce(h, s, a, identity) == ReduceLoop(h, s, a, identity, <<>>, 0)

sum(h, s) == reduce(h, s, "add", None)

\* The builtins min and max: ValueError on an empty iterable, otherwise the
\* first element that no later one beats.
RECURSIVE ExtremeLoop(_, _, _, _, _, _)
ExtremeStep(r, s, c, isMax, best, buf) ==
  CASE r.st = "ok" ->
         IF buf = <<>> THEN ExtremeLoop(r.h, s, c, isMax, r.v, <<r.v>>)
         ELSE IF CmpRaises(c, r.v, best)
              THEN Out("raised", r.h, RErr("TypeError"), Append(buf, r.v), 0)
              ELSE ExtremeLoop(r.h, s, c, isMax,
                               IF (IF isMax THEN Less(c, best, r.v)
                                            ELSE Less(c, r.v, best))
                               THEN r.v ELSE best,
                               Append(buf, r.v))
    [] r.st = "end" ->
         IF buf = <<>> THEN Out("raised", r.h, RErr("ValueError"), buf, 0)
         ELSE Out("returned", r.h, OptionalOfNullable(best), buf, 0)
    [] r.st = "raise" -> Out("raised", r.h, RErr("TypeError"), buf, 0)
    [] OTHER -> Out("running", r.h, RNone, buf, 0)

ExtremeLoop(h, s, c, isMax, best, buf) ==
  ExtremeStep(IterNext(h, s, Len(buf)), s, c, isMax, best, buf)

min(h, s, c) == ExtremeLoop(h, s, c, FALSE, None, <<>>)
max(h, s, c) == ExtremeLoop(h, s, c, TRUE, None, <<>>)

countOf(d) == AfterDrain(d, RInt(Len(d.seq)))
count(h, s) == countOf(Drain(h, s, <<>>))

listOf(d) == AfterDrain(d, RList(d.seq))
toList(h, s) == listOf(Drain(h, s, <<>>))

setOf(d) == AfterDrain(d, RSet({d.seq[i] : i \in 1..Len(d.seq)}))
toSet(h, s) == setOf(Drain(h, s, <<>>))

\* iter(self.__iterable): a fresh list iterator for a collection, the lazy
\* sequence itself otherwise.  Nothing is pulled by the call.
iter(h, s) ==
  IF h[s].kind = "list"
  THEN Out("returned", Append(h, Obj("listiter", <<>>, "-", "-", 0, s)),
           RIter("iterator", <<>>, Len(h) + 1), <<>>, 0)
  ELSE Out("returned", h, RIter("iterator", <<>>, s), <<>>, 0)

\* self.__iterable == value.__iterable: lists compare by content, a list never
\* equals a lazy sequence, lazy sequences compare by identity.
\* An equality that materializes both operands: list(a) == list(b).
ListsEqual(d, e) == Out("returned", e.h, RBool(d.seq = e.seq), <<>>, 0)

RestOf(d, t) == ListsEqual(d, Drain(d.h, t, <<>>))

eqMaterializing(h, s, t) == RestOf(Drain(h, s, <<>>), t)

eq(h, s, t) ==
  Out("returned", h,
      RBool(IF h[s].kind = "list" /\ h[t].kind = "list"
            THEN h[s].data = h[t].data
            ELSE s = t),
      <<>>, 0)

\* ------------------------------------------------------------------ state
\* heap: the iterables; run: the last terminal call, its outcome and the heap
\* before and after it; prev: the terminal call before it; left: terminal
\* calls the caller still makes.
VARIABLES heap, run, prev, left

vars == <<heap, run, prev, left>>

Idle ==
  [op |-> "-", self |-> 0, fn |-> "-", idGiven |-> FALSE, id |-> None,
   other |-> 0, st |-> "-", res |-> RNone, buf |-> <<>>, napp |-> 0,
   pre |-> <<>>, post |-> <<>>]

\* One Stream has been constructed; the caller makes n terminal calls.
Built(n) ==
  /\ heap \in {<<o>> : o \in Sources}
  /\ run = Idle
  /\ prev = Idle
  /\ left = n

\* A chaining call: one more Stream, nothing else changes.
Chain(o) ==
  /\ Len(heap) < MaxObjs
  /\ heap' = Append(heap, o)
  /\ UNCHANGED <<run, prev, left>>

\* A terminal call with outcome o.
Terminal(op, s, fn, idGiven, id, other, o) ==
  /\ left > 0
  /\ Len(o.h) <= MaxObjs
  /\ heap' = o.h
  /\ run' = [op |-> op, self |-> s, fn |-> fn, idGiven |-> idGiven, id |-> id,
             other |-> other, st |-> o.st, res |-> o.res, buf |-> o.buf,
             napp |-> o.napp, pre |-> heap, post |-> o.h]
  /\ prev' = [run EXCEPT !.pre = <<>>, !.post = <<>>]
  /\ left' = left - 1

Filter == \E s \in Streams(heap), p \in Preds : Chain(filter(s, p))
Map == \E s \in Streams(heap), f \in Mappers : Chain(map(s, f))
FlatMap == \E s \in Streams(heap), f \in FlatMappers : Chain(flatMap(s, f))
Distinct == \E s \in Streams(heap) : Chain(distinct(s))
Limit == \E s \in Streams(heap), n \in 0..MaxCount : Chain(limit(s, n))
Skip == \E s \in Streams(heap), n \in 0..MaxCount : Chain(skip(s, n))
TakeWhile == \E s \in Streams(heap), p \in Preds : Chain(takeWhile(s, p))
DropWhile == \E s \in Streams(heap), p \in Preds : Chain(dropWhile(s, p))
Peek == \E s \in Streams(heap) : Chain(peek(s, "log"))

Sorted ==
  \E s \in Streams(heap), c \in Cmps :
    /\ Len(heap) < MaxObjs
    /\ heap' = sorted(heap, s, c)
    /\ UNCHANGED <<run, prev, left>>

ForEach ==
  \E s \in Streams(heap) :
    Terminal("forEach", s, "log", FALSE, None, 0, forEach(heap, s))
AnyMatch ==
  \E s \in Streams(heap), p \in Preds :
    Terminal("anyMatch", s, p, FALSE, None, 0, anyMatch(heap, s, p))
AllMatch ==
  \E s \in Streams(heap), p \in Preds :
    Terminal("allMatch", s, p, FALSE, None, 0, allMatch(heap, s, p))
NoneMatch ==
  \E s \in Streams(heap), p \in Preds :
    Terminal("noneMatch", s, p, FALSE, None, 0, noneMatch(heap, s, p))
FindFirst ==
  \E s \in Streams(heap) :
    Terminal("findFirst", s, "-", FALSE, None, 0, findFirst(heap, s))
FindAny ==
  \E s \in Streams(heap) :
    Terminal("findAny", s, "-", FALSE, None, 0, findAny(heap, s))
\* reduce(acc), reduce(acc, None), reduce(acc, 0)
Reduce ==
  \E s \in Streams(heap), a \in Accs, given \in BOOLEAN, v \in {None, 0} :
    /\ ~given => v = None
    /\ Terminal("reduce", s, a, given, v, 0, reduce(heap, s, a, v))
Min ==
  \E s \in Streams(heap), c \in Cmps :
    Terminal("min", s, c, FALSE, None, 0, min(heap, s, c))
Max ==
  \E s \in Streams(heap), c \in Cmps :
    Terminal("max", s, c, FALSE, None, 0, max(heap, s, c))
Sum ==
  \E s \in Streams(heap) : Terminal("sum", s, "-", FALSE, None, 0, sum(heap, s))
Count ==
  \E s \in Streams(heap) :
    Terminal("count", s, "-", FALSE, None, 0, count(heap, s))
ToList ==
  \E s \in Streams(heap) :
    Terminal("toList", s, "-", FALSE, None, 0, toList(heap, s))
ToSet ==
  \E s \in Streams(heap) :
    Terminal("toSet", s, "-", FALSE, None, 0, toSet(heap, s))
Iter ==
  \E s \in Streams(heap) :
    Terminal("__iter__", s, "-", FALSE, None, 0, iter(heap, s))
Eq ==
  \E s \in Streams(heap), t \in Streams(heap) :
    Terminal("__eq__", s, "-", FALSE, None, t, eq(heap, s, t))

\* The caller's next() on the iterator the last __iter__ call returned.
Driven(r) ==
  /\ r.st # "stuck"
  /\ heap' = r.h
  /\ run' = CASE r.st = "ok" ->
                  [run EXCEPT !.res.seq = Append(@, r.v),
                              !.buf = Append(@, r.v)]
             [] r.st = "end" -> [run EXCEPT !.res.tag = "iterated"]
             [] OTHER -> [run EXCEPT !.st = "raised",
                                     !.res = RErr("TypeError")]

Drive ==
  /\ run.op = "__iter__"
  /\ run.res.tag = "iterator"
  /\ Driven(Pull(heap, run.res.n))
  /\ UNCHANGED <<prev, left>>

Chaining ==
  \/ Filter \/ Map \/ FlatMap \/ Distinct \/ Limit \/ Skip \/ TakeWhile
  \/ DropWhile \/ Sorted \/ Peek

\* ------------------------------------------------------------------ specifications
\* A pipeline is built by chaining and driven by one terminal call.
Init == Built(1)

Next ==
  \/ Filter \/ Map \/ FlatMap \/ Distinct \/ Limit \/ Skip \/ TakeWhile
  \/ DropWhile \/ Sorted \/ Peek
  \/ ForEach \/ AnyMatch \/ AllMatch \/ NoneMatch \/ FindFirst \/ FindAny
  \/ Reduce \/ Min \/ Max \/ Sum \/ Count \/ ToList \/ ToSet \/ Iter \/ Eq
  \/ Drive

Spec == Init /\ [][Next]_vars

\* Reuse: the caller drives pipelines with up to MaxCalls materializing calls.
InitReuse == Built(MaxCalls)

NextReuse ==
  \/ Filter \/ Map \/ FlatMap \/ Distinct \/ Limit \/ Skip \/ TakeWhile
  \/ DropWhile \/ Sorted \/ Peek
  \/ Count \/ ToList \/ ToSet \/ Iter \/ Drive

SpecReuse == InitReuse /\ [][NextReuse]_vars

\* findFirst / findAny on every pipeline of one or more stages.
NextFind ==
  \/ Filter \/ Map \/ FlatMap \/ Distinct \/ Limit \/ Skip \/ TakeWhile
  \/ DropWhile \/ Sorted \/ Peek
  \/ FindFirst \/ FindAny

SpecFind == Init /\ [][NextFind]_vars

\* Equality of any two of the pipelines built.
NextEq ==
  \/ Filter \/ Map \/ FlatMap \/ Distinct \/ Limit \/ Skip \/ TakeWhile
  \/ DropWhile \/ Sorted \/ Peek
  \/ Eq

SpecEq == Init /\ [][NextEq]_vars

\* sorted(comparator?).toList()
NextSorted == Sorted \/ ToList

SpecSorted == Init /\ [][NextSorted]_vars

\* ------------------------------------------------------------------ claims
Unbounded == {"iterate", "generate"}

\* The elements the pipeline of call r held when the call was made.
Content(r) == Drain(r.pre, r.self, <<>>)

AllInts(seq) == \A i \in 1..Len(seq) : seq[i] # None

\* The value an Optional result holds; None when it is empty.
Value(res) == IF res.seq = <<>> THEN None ELSE res.seq[1]

\* C1: as long as no terminal operation has driven a pipeline, chaining
\* (filter, map, flatMap, distinct, limit, skip, takeWhile, dropWhile, sorted,
\* peek) has pulled no element from any source and moved no cursor.
C1_ChainingPullsNothing ==
  run.op = "-" =>
    \A i \in DOMAIN heap : heap[i].out = 0 /\ heap[i].pos = 0

\* C2: anyMatch(pred) on an unbounded source in which an element satisfies
\* pred has returned True, and no element was pulled after the first one that
\* satisfies pred.
C2_AnyMatchShortCircuits ==
  (/\ run.op = "anyMatch"
   /\ run.pre[run.self].kind \in Unbounded
   /\ \E i \in 1..Len(run.buf) : ApplyPred(run.fn, run.buf[i]))
  => /\ run.st = "returned"
     /\ run.res = RBool(TRUE)
     /\ \A i \in 1..(Len(run.buf) - 1) : ~ApplyPred(run.fn, run.buf[i])

\* A call that ran to its end: it returned and, for direct iteration, the
\* caller iterated to exhaustion.
Complete(r) == r.st = "returned" /\ (r.op = "__iter__" => r.res.tag = "iterated")

\* C3: a terminal call (direct iteration included) that repeats the first
\* terminal call on the same pipeline either raises or returns the result the
\* first call returned; it never silently returns a different result.
C3_ReuseSameResultOrError ==
  (/\ prev.op # "-"
   /\ Complete(prev)
   /\ run.self = prev.self
   /\ run.op = prev.op
   /\ run.st # "running"
   /\ run.res.tag # "iterator")
  => \/ run.st = "raised"
     \/ /\ run.res.tag = prev.res.tag
        /\ run.res.seq = prev.res.seq
        /\ run.res.set = prev.res.set
        /\ run.op # "__iter__" => run.res.n = prev.res.n

\* C4: min / max on an empty sequence return an empty Optional and raise
\* nothing; on a non-empty finite sequence of ints they return an Optional
\* holding an element that no element is less than / greater than under the
\* comparator.
C4_MinMaxOptional ==
  (/\ run.op \in {"min", "max"}
   /\ Content(run).st = "end"
   /\ AllInts(Content(run).seq))
  => /\ run.st = "returned"
     /\ Content(run).seq = <<>> => run.res = OptionalEmpty
     /\ Content(run).seq # <<>> =>
          /\ run.res.tag = "Optional"
          /\ \E i \in 1..Len(Content(run).seq) :
               run.res.seq = <<Content(run).seq[i]>>
          /\ \A i \in 1..Len(Content(run).seq) :
               IF run.op = "min"
               THEN ~Less(run.fn, Content(run).seq[i], Value(run.res))
               ELSE ~Less(run.fn, Value(run.res), Content(run).seq[i])

\* C5: reduce returns an empty Optional only when no identity was given and
\* the sequence is empty: the Optional is present for every non-empty finite
\* sequence and for every call with an identity.  (A call that passes None as
\* the identity is counted here as giving none.)
C5_ReducePresent ==
  (/\ run.op = "reduce"
   /\ run.st = "returned"
   /\ (run.idGiven /\ run.id # None) \/ run.buf # <<>>)
  => run.res # OptionalEmpty

\* The left fold acc(...acc(acc(v, e1), e2)..., en) and the number of
\* accumulator applications it makes; raised when an application raises.
RECURSIVE FoldLeft(_, _, _, _)
FoldLeft(a, v, seq, n) ==
  IF seq = <<>> THEN [raised |-> FALSE, v |-> v, napp |-> n]
  ELSE IF AccRaises(a, v, Head(seq)) THEN [raised |-> TRUE, v |-> v, napp |-> n + 1]
  ELSE FoldLeft(a, ApplyAcc(a, v, Head(seq)), Tail(seq), n + 1)

\* C6: reduce folds strictly left to right: with an identity i the result is
\* acc(...acc(acc(i, e1), e2)..., en) after n applications, without one it is
\* acc(...acc(e1, e2)..., en) after n - 1 applications, also when elements
\* are None or the accumulator returns None.  (Stated for the calls that give
\* no identity or an identity other than None.)
C6_ReduceLeftFold ==
  (/\ run.op = "reduce"
   /\ run.st = "returned"
   /\ run.idGiven => run.id # None
   /\ run.idGiven \/ run.buf # <<>>)
  => LET want == IF run.idGiven THEN FoldLeft(run.fn, run.id, run.buf, 0)
                 ELSE FoldLeft(run.fn, Head(run.buf), Tail(run.buf), 0)
     IN /\ ~want.raised
        /\ Value(run.res) = want.v
        /\ run.napp = want.napp

\* C7: on every finite pipeline, whether it wraps a collection or a lazy
\* sequence, noneMatch returns True exactly when no element satisfies pred
\* and allMatch returns True exactly when every element does; neither raises.
C7_QuantifiersTotal ==
  (/\ run.op \in {"noneMatch", "allMatch"}
   /\ Content(run).st = "end")
  => /\ run.st = "returned"
     /\ run.res =
          RBool(IF run.op = "noneMatch"
                THEN \A i \in 1..Len(Content(run).seq) :
                       ~ApplyPred(run.fn, Content(run).seq[i])
                ELSE \A i \in 1..Len(Content(run).seq) :
                       ApplyPred(run.fn, Content(run).seq[i]))

\* C8: findFirst returns an Optional wrapping the first element the pipeline
\* yields, or an empty Optional when the pipeline is exhausted at once; it
\* takes at most one element from the pipeline's iterable, so it returns on an
\* unbounded source; findAny returns what findFirst returns.
C8_FindFirstPullsOne ==
  run.op \in {"findFirst", "findAny"} =>
    LET first == IterNext(run.pre, run.self, 0)
    IN /\ first.st = "ok" =>
            run.st = "returned" /\ run.res = OptionalOf(first.v)
       /\ first.st = "end" => run.st = "returned" /\ run.res = OptionalEmpty
       /\ run.post[run.self].out <= run.pre[run.self].out + 1
       /\ Len(run.buf) <= 1
       /\ run.post = first.h
       /\ (run.pre[run.self].kind \in Unbounded
             /\ run.pre[run.self].pos < MaxPull) => run.st = "returned"

\* findFirst on a stage over an unbounded source returned an element.
C8_Witness ==
  /\ run.op = "findFirst"
  /\ run.st = "returned"
  /\ run.res.seq # <<>>
  /\ heap[run.self].kind = "gen"
  /\ heap[heap[run.self].up].kind = "iterate"

\* An iterable that has been driven to its end: every element of a
\* collection has been handed out, a lazy sequence is exhausted.
Consumed(h, s) ==
  IF h[s].kind = "list" THEN h[s].out >= Len(h[s].data)
  ELSE Pull(h, s).st = "end"

\* C9 as stated: equality materializes both pipelines, answers True only if
\* the materialized sequences are equal, and leaves both operands consumed.
C9_EqConsumesBoth ==
  (run.op = "__eq__" /\ run.st = "returned") =>
    /\ Consumed(run.post, run.self)
    /\ Consumed(run.post, run.other)
    /\ run.res = RBool(TRUE) =>
         Drain(run.pre, run.self, <<>>).seq = Drain(run.pre, run.other, <<>>).seq

\* C9 amended: equality pulls no element and leaves both operands as they
\* were; it answers True only if the operands are one pipeline or wrap
\* collections whose element sequences are equal.
C9_EqPullsNothing ==
  run.op = "__eq__" =>
    /\ run.st = "returned"
    /\ run.post = run.pre
    /\ run.res = RBool(TRUE) =>
         \/ run.self = run.other
         \/ /\ run.pre[run.self].kind = "list"
            /\ run.pre[run.other].kind = "list"
            /\ Drain(run.pre, run.self, <<>>).seq
                 = Drain(run.pre, run.other, <<>>).seq

\* Two different pipelines over non-empty collections compared equal.
C9_Witness ==
  /\ run.op = "__eq__"
  /\ run.self # run.other
  /\ run.res = RBool(TRUE)
  /\ heap[run.self].data # <<>>

\* Elements x and y compare equal under comparator c.
Tied(c, x, y) == ~Less(c, x, y) /\ ~Less(c, y, x)

\* The elements of seq that compare equal to x, in their order in seq.
TiedWith(seq, c, x) ==
  LET Keep(y) == Tied(c, x, y)
  IN SelectSeq(seq, Keep)

\* C10: sorted(comparator?).toList() on a finite sequence S is a permutation
\* of S, ordered by the comparator, and stable: the elements that compare
\* equal come in the order they had in S.
\* sorted() returns no Stream only when the receiver is unbounded or two of
\* its elements cannot be compared.
C10_SortedStable ==
  /\ \A i \in DOMAIN heap :
       heap[i].kind = "failed" =>
         SortRaises(heap[i].inner) \/ heap[heap[i].up].kind \in Unbounded
  /\ (/\ run.op = "toList"
      /\ run.st = "returned"
      /\ heap[run.self].op = "sorted")
     => LET S == heap[run.self].inner
            R == run.res.seq
            c == heap[run.self].fn
        IN /\ Len(R) = Len(S)
           /\ \A i \in 1..Len(R) : \A j \in i..Len(R) : ~Less(c, R[j], R[i])
           /\ \A i \in 1..Len(S) : TiedWith(R, c, S[i]) = TiedWith(S, c, S[i])

\* [1, 0] sorted by a comparator under which 1 and 0 are equal is [1, 0].
C10_Witness ==
  /\ run.op = "toList"
  /\ run.st = "returned"
  /\ heap[run.self].op = "sorted"
  /\ heap[run.self].fn = "half"
  /\ heap[run.self].inner = <<1, 0>>
  /\ run.res.seq = <<1, 0>>

====
